---- MODULE Spec2Model ----
(***************************************************************************)
(* koplib: knapsack and weighted-SAT solvers.                              *)
(*   solve/basic/_solver.py, solve/basic/knapsack.py   the basic solvers   *)
(*   solve/iterative/_solver.py, knapsack.py, wsat.py  simulated annealing *)
(***************************************************************************)
EXTENDS Integers, Sequences, FiniteSets, TLC

\* ------------------------------------------------------------------------
\* Bounds of the model
\* ------------------------------------------------------------------------
MaxN == 2
MaxWeight == 2
MaxValue == 2
MaxCap == 2
EpsBits == 2
SaMaxN == 1
SaMaxItem == 1
MaxBatches == 2
MaxHalvings == 1
MaxVars == 3
MaxClauseLen == 3

\* ------------------------------------------------------------------------
\* State
\* ------------------------------------------------------------------------
VARIABLES
    solver,   \* the basic solver object: its class and its attributes
    inst,     \* the knapsack instance handed to solve: n, cap, weights, values
    perm,     \* what np.argsort(-vw_ratios) returns for inst (numbered from 1)
    call,     \* the solve call: status not_called | returned | raised, and ret
    ctor,     \* the arguments a caller gave the annealing solver's constructor
    sa,       \* the annealing solver object
    prob,     \* the arguments of its solve call (the problem instance)
    pc,       \* where solve is: constructed, estimating, cooling, done, raised
    frame,    \* the locals of solve and _estimate_initial_temp
    step,     \* the locals of the last _step call
    sret,     \* what solve returned
    cin,      \* the arguments of an _eval_clause call: clause and config
    cout,     \* what it returned (NotEvaluated before the call)
    first,    \* an earlier solve call on the same basic solver object
    qlog,     \* the last query made after solve returned, and what it returned
    stack,    \* the call stack of __knapsack_rec, with the shared config list
    oself,    \* a WSATSolverSA whose problem is set
    ocfg,     \* the argument of an _objective call: config and its type
    oret      \* what it returned

basicVars == <<solver, inst, perm, call>>

saVars == <<ctor, sa, prob, pc, frame, step, sret>>

wsatVars == <<cin, cout>>

lifeVars == <<first, qlog>>

recVars == <<stack>>

objVars == <<oself, ocfg, oret>>

auxVars == <<first, qlog, stack, oself, ocfg, oret>>

vars == <<solver, inst, perm, call, ctor, sa, prob, pc, frame, step, sret,
          cin, cout, first, qlog, stack, oself, ocfg, oret>>

\* The value of the variables a specification does not use.
Idle == "idle"

BasicIdle == solver = Idle /\ inst = Idle /\ perm = Idle /\ call = Idle

SaIdle ==
    /\ ctor = Idle /\ sa = Idle /\ prob = Idle /\ pc = Idle
    /\ frame = Idle /\ step = Idle /\ sret = Idle

WsatIdle == cin = Idle /\ cout = Idle

LifeIdle == first = Idle /\ qlog = Idle

RecIdle == stack = Idle

ObjIdle == oself = Idle /\ ocfg = Idle /\ oret = Idle

AuxIdle == LifeIdle /\ RecIdle /\ ObjIdle

\* ------------------------------------------------------------------------
\* Helpers for Python built-ins
\* ------------------------------------------------------------------------
None == "None"

Max(a, b) == IF a >= b THEN a ELSE b

RECURSIVE SumSeq(_)
SumSeq(s) == IF s = <<>> THEN 0 ELSE s[1] + SumSeq(Tail(s))

Zeros(n) == [i \in 1..n |-> 0]

\* sum([x for x, flag in zip(xs, config) if flag == 1])
SumFlagged(xs, config) ==
    SumSeq([i \in 1..Len(xs) |-> IF config[i] = 1 THEN xs[i] ELSE 0])

\* ------------------------------------------------------------------------
\* solve/basic/_solver.py: __Solver
\* ------------------------------------------------------------------------
Classes == {"SolverBrute", "SolverBB", "SolverDynamic",
            "SolverGreedy", "SolverRedux", "SolverFPTAS"}

\* __Solver.__init__ (and SolverFPTAS.__init__, which adds _eps).  The two
\* attributes without underscore are the ones _solve_greedy creates.
Solver_init(cls, eps) ==
    [cls |-> cls, _eps |-> eps,
     _n |-> None, _cap |-> None, _weights |-> None, _values |-> None,
     _value_best |-> None, _weight_best |-> None, _config_best |-> None,
     _values_sum |-> None,
     config_best |-> None, weight_best |-> None]

\* Mutant: the best value is set to 0 only on a new object.
set_instance_params_KeepsBest(self, n, cap, weights, values) ==
    [self EXCEPT !._n = n, !._cap = cap, !._weights = weights,
                 !._values = values,
                 !._value_best = IF ToString(@) = ToString(None) THEN 0 ELSE @,
                 !._weight_best = 0,
                 !._config_best = Zeros(n),
                 !._values_sum = SumSeq(values)]

set_instance_params(self, n, cap, weights, values) ==
    [self EXCEPT !._n = n, !._cap = cap, !._weights = weights,
                 !._values = values,
                 !._value_best = 0, !._weight_best = 0,
                 !._config_best = Zeros(n),
                 !._values_sum = SumSeq(values)]

is_solvable(self) == \E i \in 1..Len(self._config_best) : self._config_best[i] > 0

get_config(self) == self._config_best

\* What a call leaves behind: the object, and the value returned or the
\* exception raised.
Returned(self, v) == [self |-> self, status |-> "returned", ret |-> v]
Raised(self) == [self |-> self, status |-> "raised", ret |-> 0]

\* ------------------------------------------------------------------------
\* solve/basic/knapsack.py: __SolverPrune, SolverBrute, SolverBB
\* ------------------------------------------------------------------------
SolverBrute_prune(self, cap, value, value_remaining) == FALSE

\* Mutant: the bound forgets the value still available.
SolverBB_prune_NoRemaining(self, cap, value, value_remaining) ==
    cap < 0 \/ self._value_best > value

SolverBB_prune(self, cap, value, value_remaining) ==
    cap < 0 \/ self._value_best > value + value_remaining

_prune(self, cap, value, value_remaining) ==
    IF self.cls = "SolverBB"
    THEN SolverBB_prune(self, cap, value, value_remaining)
    ELSE SolverBrute_prune(self, cap, value, value_remaining)

\* Mutant: the leaf records the capacity left as the best weight.
UpdateBest_CapLeft(self, cap, value, config) ==
    IF value > self._value_best
    THEN [self EXCEPT !._value_best = value,
                      !._weight_best = cap,
                      !._config_best = config]
    ELSE self

\* Mutant: a leaf of equal value replaces the best solution too.
UpdateBest_OnEqual(self, cap, value, config) ==
    IF value >= self._value_best
    THEN [self EXCEPT !._value_best = value,
                      !._weight_best = self._cap - cap,
                      !._config_best = config]
    ELSE self

\* The leaf of the recursion (n == 0): the best solution is replaced only by
\* a strictly better one.
UpdateBest(self, cap, value, config) ==
    IF value > self._value_best
    THEN [self EXCEPT !._value_best = value,
                      !._weight_best = self._cap - cap,
                      !._config_best = config]
    ELSE self

\* __knapsack_rec: the result carries the value returned, the object and the
\* config list, which the recursion mutates in place.  Items are numbered
\* from 1 here: Python's index n - 1 is index n.
RECURSIVE knapsack_rec(_, _, _, _, _, _)
knapsack_rec(self, n, cap, value, value_remaining, config) ==
    IF _prune(self, cap, value, value_remaining)
    THEN [ret |-> 0, self |-> self, config |-> config]
    ELSE IF n = 0
    THEN [ret |-> 0, self |-> UpdateBest(self, cap, value, config),
          config |-> config]
    ELSE LET val_curr == self._values[n]
             weight_curr == self._weights[n]
             without == knapsack_rec(self, n - 1, cap, value,
                                     value_remaining - self._values[n],
                                     [config EXCEPT ![n] = 0])
         IN  IF self._weights[n] > cap
             THEN without
             ELSE LET with == knapsack_rec(without.self, n - 1,
                                           cap - weight_curr, value + val_curr,
                                           value_remaining - val_curr,
                                           [without.config EXCEPT ![n] = 1])
                  IN  [ret |-> Max(with.ret + self._values[n], without.ret),
                       self |-> with.self, config |-> with.config]

SolverPrune_solve(self, n, cap, weights, values) ==
    LET s == set_instance_params(self, n, cap, weights, values)
        r == knapsack_rec(s, s._n, s._cap, 0, s._values_sum, Zeros(n))
    IN  Returned(r.self, r.ret)

\* ------------------------------------------------------------------------
\* solve/basic/knapsack.py: SolverDynamic
\* ------------------------------------------------------------------------
\* float('inf'), the cell of a value no subset reaches.  Weights are never
\* negative, so -1 stands for it; the three operators below are +, min and
\* <= on floats with this one infinity.
Inf == -1

PlusW(x, w) == IF x = Inf THEN Inf ELSE x + w

MinW(x, y) == IF x = Inf THEN y ELSE IF y = Inf THEN x ELSE IF x <= y THEN x ELSE y

\* Mutant: the scan of the last column takes any reachable value.
LeqCap_AnyWeight(x, cap) == x # Inf

LeqCap(x, cap) == x # Inf /\ x <= cap

\* table[0]: [inf] * n_rows with table[0][0] = 0
TableRow0(n_rows) == [j \in 0..(n_rows - 1) |-> IF j = 0 THEN 0 ELSE Inf]

\* Mutant: the cell with the item is taken whenever the item's value fits.
TableRow_AlwaysWith(prev, n_rows, v, w) ==
    [j \in 0..(n_rows - 1) |->
        IF j = 0 THEN 0
        ELSE IF j - v < 0 THEN prev[j]
        ELSE PlusW(prev[j - v], w)]

\* One pass of the inner loop: row i from row i - 1 (prev) and item i.
TableRow(prev, n_rows, v, w) ==
    [j \in 0..(n_rows - 1) |->
        IF j = 0 THEN 0
        ELSE IF j - v < 0 THEN prev[j]
        ELSE LET val_with == PlusW(prev[j - v], w)
                 val_without == prev[j]
             IN  MinW(val_with, val_without)]

RECURSIVE FillTable(_, _, _, _)
FillTable(i, n_rows, weights, values) ==
    IF i = 0 THEN [k \in {0} |-> TableRow0(n_rows)]
    ELSE LET t == FillTable(i - 1, n_rows, weights, values)
         IN  [k \in 0..i |-> IF k < i THEN t[k]
                             ELSE TableRow(t[i - 1], n_rows, values[i], weights[i])]

\* __find_config: walks the items from the last to the first.
RECURSIVE find_config_loop(_, _, _, _, _)
find_config_loop(table, values, n, val, config) ==
    IF n = 0 THEN config
    ELSE IF table[n][val] # table[n - 1][val]
    THEN find_config_loop(table, values, n - 1, val - values[n],
                          [config EXCEPT ![n] = 1])
    ELSE find_config_loop(table, values, n - 1, val, config)

find_config(self, table, values) ==
    [self EXCEPT !._config_best =
        find_config_loop(table, values, self._n, self._value_best,
                         self._config_best)]

\* The scan of the last column, from the highest value down to 1: the
\* values whose cell fits the capacity.
FittingValues(col, n_rows, cap) == {j \in 1..(n_rows - 1) : LeqCap(col[j], cap)}

SetMax(S) == CHOOSE x \in S : \A y \in S : y <= x

_solve_dynamic(self, n, cap, weights, values) ==
    LET n_rows == self._values_sum + 1
        table == FillTable(n, n_rows, weights, values)
        col == table[n]
        fit == FittingValues(col, n_rows, cap)
    IN  IF fit # {}
        THEN LET i == SetMax(fit)
                 s == [self EXCEPT !._value_best = i, !._weight_best = col[i]]
             IN  Returned(find_config(s, table, values), i)
        ELSE Returned(self, 0)

SolverDynamic_solve(self, n, cap, weights, values) ==
    _solve_dynamic(set_instance_params(self, n, cap, weights, values),
                   n, cap, weights, values)

\* ------------------------------------------------------------------------
\* solve/basic/knapsack.py: SolverGreedy, SolverRedux
\* ------------------------------------------------------------------------
\* vw_ratios = [v / w ...] divides by zero for an item of weight 0.
RatioRaises(weights) == \E i \in 1..Len(weights) : weights[i] = 0

\* v_a / w_a >= v_b / w_b for positive weights, without the division.
RatioGeq(values, weights, a, b) == values[a] * weights[b] >= values[b] * weights[a]

Perms(n) == {p \in [1..n -> 1..n] : \A i, j \in 1..n : i # j => p[i] # p[j]}

\* np.argsort(-vw_ratios): the items by descending ratio.  The order among
\* equal ratios is the sort's own, and any order is a possible one.
ArgsortResults(n, weights, values) ==
    IF RatioRaises(weights) THEN {[i \in 1..n |-> i]}
    ELSE {p \in Perms(n) :
            \A i, j \in 1..n : i < j => RatioGeq(values, weights, p[i], p[j])}

\* Mutant: every item is added, whether it fits or not.
RECURSIVE greedy_loop_NoFitTest(_, _, _, _, _, _)
greedy_loop_NoFitTest(i, n, weights, values, idx_permutation, acc) ==
    IF i > n THEN acc
    ELSE LET idx == idx_permutation[i]
         IN  greedy_loop_NoFitTest(i + 1, n, weights, values, idx_permutation,
                 [cap_left |-> acc.cap_left - weights[idx],
                  value_best |-> acc.value_best + values[idx],
                  config_best |-> [acc.config_best EXCEPT ![idx] = 1]])

\* The loop over the sorted items (idx_permutation is the argsort's result,
\* numbered from 1); acc is (cap_left, _value_best, config_best).
RECURSIVE greedy_loop(_, _, _, _, _, _)
greedy_loop(i, n, weights, values, idx_permutation, acc) ==
    IF i > n THEN acc
    ELSE LET idx == idx_permutation[i]
             w == weights[idx]
         IN  IF w <= acc.cap_left
             THEN greedy_loop(i + 1, n, weights, values, idx_permutation,
                     [cap_left |-> acc.cap_left - weights[idx],
                      value_best |-> acc.value_best + values[idx],
                      config_best |-> [acc.config_best EXCEPT ![idx] = 1]])
             ELSE greedy_loop(i + 1, n, weights, values, idx_permutation, acc)

_solve_greedy(self, n, cap, weights, values, idx_permutation) ==
    LET s == set_instance_params(self, n, cap, weights, values)
    IN  IF RatioRaises(weights) THEN Raised(s)
        ELSE LET acc == greedy_loop(1, n, weights, values, idx_permutation,
                            [cap_left |-> cap, value_best |-> s._value_best,
                             config_best |-> Zeros(n)])
                 t == [s EXCEPT !.config_best = acc.config_best,
                                !._value_best = acc.value_best,
                                !.weight_best = cap - acc.cap_left]
             IN  Returned(t, t._value_best)

SolverGreedy_solve(self, n, cap, weights, values, idx_permutation) ==
    _solve_greedy(self, n, cap, weights, values, idx_permutation)

\* Mutant: the filter of the items that fit is left out.
_best_item_AnyWeight(cap, weights, values) ==
    LET items == 1..Len(weights)
        idx == CHOOSE i \in items :
                    \A k \in items : values[k] < values[i]
                                     \/ (values[k] = values[i] /\ i <= k)
    IN  [value |-> values[idx], weight |-> weights[idx], idx |-> idx]

\* The items that fit, and the first of the most valuable ones (max() keeps
\* the first maximal element).
_best_item(cap, weights, values) ==
    LET items == {i \in 1..Len(weights) : weights[i] <= cap}
    IN  IF items = {} THEN [value |-> 0, weight |-> 0, idx |-> 1]
        ELSE LET idx == CHOOSE i \in items :
                            \A k \in items : values[k] < values[i]
                                             \/ (values[k] = values[i] /\ i <= k)
             IN  [value |-> values[idx], weight |-> weights[idx], idx |-> idx]

SolverRedux_solve(self, n, cap, weights, values, idx_permutation) ==
    LET g == _solve_greedy(self, n, cap, weights, values, idx_permutation)
        value_greedy == g.ret
        solo == _best_item(cap, weights, values)
    IN  IF g.status = "raised" THEN g
        ELSE IF solo.value > value_greedy
        THEN LET t == [g.self EXCEPT !._value_best = solo.value,
                                     !._weight_best = solo.weight,
                                     !._config_best = [Zeros(n) EXCEPT ![solo.idx] = 1]]
             IN  Returned(t, t._value_best)
        ELSE Returned(g.self, g.self._value_best)

\* ------------------------------------------------------------------------
\* solve/basic/knapsack.py: SolverFPTAS
\* ------------------------------------------------------------------------
\* Python's round() of the fraction a / b (a >= 0, b > 0): to the nearest
\* integer, a tie going to the even one.
Round(a, b) ==
    LET q == a \div b
        r == a % b
    IN  IF 2 * r < b THEN q
        ELSE IF 2 * r > b THEN q + 1
        ELSE IF q % 2 = 0 THEN q ELSE q + 1

\* round(x / coef).  eps is the fraction num / den and coef =
\* (max(values_viable) * eps) / len(values_viable), so
\* x / coef = (x * den * len) / (max * num).
ScaledValue(x, eps, cnt, vmax) == Round(x * eps.den * cnt, vmax * eps.num)

SolverFPTAS_solve(self, n, cap, weights, values) ==
    LET s == set_instance_params(self, n, cap, weights, values)
        viable == {i \in 1..n : weights[i] <= cap}
    IN  IF viable = {} THEN Returned(s, 0)
        ELSE LET vmax == SetMax({values[i] : i \in viable})
                 cnt == Cardinality(viable)
             IN  IF vmax = 0 THEN Raised(s)
                 ELSE LET scaled == [i \in 1..n |->
                                ScaledValue(values[i], s._eps, cnt, vmax)]
                          values_sum_orig == s._values_sum
                          s1 == [s EXCEPT !._values_sum = SumSeq(scaled)]
                          d == _solve_dynamic(s1, n, cap, weights, scaled)
                          s2 == [d.self EXCEPT
                                   !._value_best = SumFlagged(s._values, d.self._config_best),
                                   !._values_sum = values_sum_orig]
                      IN  Returned(s2, s2._value_best)

\* ------------------------------------------------------------------------
\* Numbers of the annealing engine.  Temperatures and objective values are
\* Python floats; the model holds them as fractions num / den (den > 0) in
\* lowest terms.  NoneT is the None of an optional temperature.
\* ------------------------------------------------------------------------
RECURSIVE GCD(_, _)
GCD(a, b) == IF b = 0 THEN a ELSE GCD(b, a % b)

Abs(x) == IF x < 0 THEN -x ELSE x

Rat(n, d) ==
    LET g == GCD(Abs(n), Abs(d))
        sgn == IF d < 0 THEN -1 ELSE 1
    IN  [num |-> sgn * (n \div g), den |-> sgn * (d \div g)]

RatInt(n) == [num |-> n, den |-> 1]

RatLess(a, b) == a.num * b.den < b.num * a.den

RatLeq(a, b) == a.num * b.den <= b.num * a.den

RatMul(a, b) == Rat(a.num * b.num, a.den * b.den)

RatAdd(a, b) == Rat(a.num * b.den + b.num * a.den, a.den * b.den)

RatNeg(a) == [num |-> -a.num, den |-> a.den]

NoneT == [num |-> 0, den |-> 0]

IsNone(t) == t.den = 0

\* ------------------------------------------------------------------------
\* solve/iterative/_solver.py: _with_prob, _flip_random, SolverSA
\* ------------------------------------------------------------------------
\* _with_prob(p) for p = exp(improvement / t_curr) with improvement < 0.
\* At a positive temperature 0 <= p < 1 and the draw r of random.random()
\* decides: r_le_p tells whether r <= p.  At a negative temperature p > 1 and
\* every draw is below it.
_with_prob(t_curr, r_le_p) == IF t_curr.num > 0 THEN r_le_p ELSE TRUE

\* idx is the draw of random.randint, numbered from 1.
_flip_random(config, idx) == [config EXCEPT ![idx] = (config[idx] + 1) % 2]

SolverSA_init(cls, cooling_coef, t_initial, t_final, inner_cycle, start_acceptance_ratio, sliding_window_size) ==
    [cls |-> cls,
     _t_final |-> t_final, _cooling_coef |-> cooling_coef,
     _t_initial |-> t_initial, _inner_cycle |-> inner_cycle,
     _start_acceptance_ratio |-> start_acceptance_ratio,
     _sliding_window_size |-> sliding_window_size,
     _t_curr |-> t_initial,
     _config |-> None, _history |-> None, _n_steps_still |-> None,
     _n |-> None, _cap |-> None, _weights |-> None, _values |-> None,
     _n_vars |-> None, _n_clauses |-> None, _clauses |-> None,
     _max_score |-> None,
     _penalize |-> None, _weights_importance |-> None]

\* ------------------------------------------------------------------------
\* solve/iterative/knapsack.py: KnapsackSolverSA
\* ------------------------------------------------------------------------
\* super().__init__ is called with positional arguments, t_final before
\* t_initial.
KnapsackSolverSA_init(cooling_coef, t_initial, t_final, inner_cycle, start_acceptance_ratio, sliding_window_size) ==
    SolverSA_init("KnapsackSolverSA", cooling_coef, t_final, t_initial,
                  inner_cycle, start_acceptance_ratio, sliding_window_size)

Knapsack_init_problem(self, args) ==
    [self EXCEPT !._n = args.n, !._cap = args.cap,
                 !._weights = args.weights, !._values = args.values]

Knapsack_objective(self, config) ==
    LET sum_w == SumFlagged(self._weights, config)
    IN  IF sum_w > self._cap THEN RatInt(self._cap - sum_w)
        ELSE RatInt(SumFlagged(self._values, config))

\* ------------------------------------------------------------------------
\* solve/iterative/wsat.py: _eval_clause, WSATSolverSA
\* ------------------------------------------------------------------------
\* Mutant: every literal has to match.
_eval_clause_AllMatch(clause, config) ==
    IF \A k \in 1..Len(clause) :
            config[Abs(clause[k])] = (IF clause[k] < 0 THEN 0 ELSE 1)
    THEN 1 ELSE 0

_eval_clause(clause, config) ==
    LET indices == [k \in 1..Len(clause) |-> Abs(clause[k])]
        assigns == [k \in 1..Len(clause) |-> config[indices[k]]]
        signs == [k \in 1..Len(clause) |-> IF clause[k] < 0 THEN 0 ELSE 1]
        matches == [k \in 1..Len(clause) |-> IF assigns[k] = signs[k] THEN 1 ELSE 0]
    IN  IF SumSeq(matches) > 0 THEN 1 ELSE 0

Strategies == {"simple", "weighted", "greedy"}

\* Mutant: the strategy name is stored unchecked.
WSATSolverSA_init_NoAssert(cooling_coef, t_initial, t_final, inner_cycle, start_acceptance_ratio, sliding_window_size, penalize_strategy, weights_importance) ==
    [SolverSA_init("WSATSolverSA", cooling_coef, t_final, t_initial,
                   inner_cycle, start_acceptance_ratio, sliding_window_size)
        EXCEPT !._penalize = penalize_strategy,
               !._weights_importance = weights_importance]

\* The assert of __init__ on penalize_strategy: the construction fails for
\* another name.
WSATSolverSA_init(cooling_coef, t_initial, t_final, inner_cycle, start_acceptance_ratio, sliding_window_size, penalize_strategy, weights_importance) ==
    LET s == SolverSA_init("WSATSolverSA", cooling_coef, t_final, t_initial,
                           inner_cycle, start_acceptance_ratio,
                           sliding_window_size)
    IN  IF penalize_strategy \in Strategies
        THEN [s EXCEPT !._penalize = penalize_strategy,
                       !._weights_importance = weights_importance]
        ELSE [s EXCEPT !.cls = "AssertionError"]

WSAT_init_problem(self, args) ==
    [self EXCEPT !._n_vars = args.n_vars, !._n_clauses = args.n_clauses,
                 !._weights = args.weights, !._clauses = args.clauses,
                 !._max_score = SumSeq(args.weights)]

\* What a float64 division 0.0 / 0 of numpy leaves: not a number.
NaN == [num |-> 1, den |-> 0]

IsNaN(x) == x.den = 0

\* The three penalties, as fractions.  The greedy one divides by _max_score.
\* With a total weight of 0 the division raises ZeroDivisionError when config
\* holds Python numbers, and the except branch takes the simple penalty; when
\* config is a numpy array (as every config of the engine is: np.zeros,
\* config.copy()) weighted_sum is a float64, the division gives nan with a
\* warning, nothing is raised and the penalty is nan.
WSAT_objective(self, config, is_numpy) ==
    LET eval_vec == [c \in 1..Len(self._clauses) |->
                        _eval_clause(self._clauses[c], config)]
        weighted_sum == SumSeq([i \in 1..Len(self._weights) |->
                                    self._weights[i] * config[i]])
        n_invalid == self._n_clauses - SumSeq(eval_vec)
    IN  IF n_invalid = 0 THEN RatInt(weighted_sum)
        ELSE IF self._penalize = "simple" THEN RatNeg(RatInt(n_invalid))
        ELSE IF self._penalize = "weighted"
        THEN LET invalid_ratio == Rat(n_invalid, self._n_clauses)
             IN  RatNeg(RatMul(invalid_ratio, RatInt(self._max_score)))
        ELSE IF self._penalize = "greedy" /\ self._max_score = 0
        THEN IF is_numpy THEN NaN ELSE RatNeg(RatInt(n_invalid))
        ELSE IF self._penalize = "greedy"
        THEN LET wi == self._weights_importance
                 score_ratio == RatMul(Rat(self._max_score - weighted_sum,
                                           self._max_score), wi)
                 invalid_ratio == RatMul(Rat(n_invalid, self._n_clauses),
                                         RatAdd(RatInt(1), RatNeg(wi)))
             IN  RatNeg(RatMul(RatInt(self._max_score),
                               RatAdd(invalid_ratio, score_ratio)))
        ELSE RatNeg(RatInt(0))

\* ------------------------------------------------------------------------
\* The hooks of SolverSA, by class
\* ------------------------------------------------------------------------
_init_problem(self, args) ==
    IF self.cls = "KnapsackSolverSA" THEN Knapsack_init_problem(self, args)
    ELSE WSAT_init_problem(self, args)

\* np.zeros(n) / np.zeros(n_vars)
config_init(args) ==
    IF "n_vars" \in DOMAIN args THEN Zeros(args.n_vars) ELSE Zeros(args.n)

_transition(self, idx) == _flip_random(self._config, idx)

_objective(self, config) ==
    IF self.cls = "KnapsackSolverSA" THEN Knapsack_objective(self, config)
    ELSE WSAT_objective(self, config, TRUE)

\* ------------------------------------------------------------------------
\* solve/iterative/_solver.py: SolverSA._step, _stop
\* ------------------------------------------------------------------------
\* Mutant: the draw decides for every neighbour, not only for a worse one.
_step_AlwaysDraws(self, idx, r_le_p) ==
    LET neigh == _transition(self, idx)
        obj_new == _objective(self, neigh)
        obj_curr == _objective(self, self._config)
        change == _with_prob(self._t_curr, r_le_p)
    IN  [raises |-> FALSE,
         config_next |-> IF change THEN neigh ELSE self._config,
         objective_next |-> obj_new,
         neigh |-> neigh, obj_new |-> obj_new, obj_curr |-> obj_curr,
         change |-> change,
         self |-> [self EXCEPT !._n_steps_still =
                        IF change THEN 0 ELSE self._n_steps_still + 1]]

\* _step with the two random draws it makes: idx (the bit flipped) and r_le_p
\* (see _with_prob).  It returns (config_next, objective_next) and sets
\* _n_steps_still; a worse neighbour at temperature 0 divides by zero.
_step(self, idx, r_le_p) ==
    LET neigh == _transition(self, idx)
        obj_new == _objective(self, neigh)
        obj_curr == _objective(self, self._config)
        worse == RatLess(obj_new, obj_curr)
        raises == worse /\ self._t_curr.num = 0
        change == IF worse THEN _with_prob(self._t_curr, r_le_p) ELSE TRUE
        config_next == IF change THEN neigh ELSE self._config
        objective_next == obj_new
    IN  [raises |-> raises,
         config_next |-> config_next, objective_next |-> objective_next,
         neigh |-> neigh, obj_new |-> obj_new, obj_curr |-> obj_curr,
         change |-> change,
         self |-> [self EXCEPT !._n_steps_still =
                        IF change THEN 0 ELSE self._n_steps_still + 1]]

\* Mutant: the final temperature has to be passed, not only reached.
_stop_StrictlyBelow(self) ==
    LET converged ==
            IF IsNone(self._t_final)
            THEN 2 * self._n_steps_still >= self._sliding_window_size
            ELSE RatLess(self._t_curr, self._t_final)
    IN  converged \/ self._t_curr.num <= 0

\* Mutant: the stall criterion also counts when a final temperature is set.
_stop_StallAlways(self) ==
    \/ 2 * self._n_steps_still >= self._sliding_window_size
    \/ (~IsNone(self._t_final) /\ RatLeq(self._t_curr, self._t_final))
    \/ self._t_curr.num <= 0

\* n_steps_still >= sliding_window_size / 2 is a comparison with a float.
_stop(self) ==
    LET converged ==
            IF IsNone(self._t_final)
            THEN 2 * self._n_steps_still >= self._sliding_window_size
            ELSE RatLeq(self._t_curr, self._t_final)
    IN  converged \/ self._t_curr.num <= 0

sa_get_config(self) == self._config

\* ------------------------------------------------------------------------
\* The basic solvers as a state machine: a solver object is constructed, and
\* solve is called on it with an instance.
\* ------------------------------------------------------------------------
Instances ==
    UNION {[n : {n}, cap : 0..MaxCap,
            weights : [1..n -> 0..MaxWeight],
            values : [1..n -> 0..MaxValue]] : n \in 1..MaxN}

\* The eps of a SolverFPTAS: the binary fractions k / 2^EpsBits strictly
\* between 0 and 1 (floats that hold them exactly).
EpsDen == 2 ^ EpsBits

EpsSet == {[num |-> k, den |-> EpsDen] : k \in 1..(EpsDen - 1)}

NewSolvers ==
    {Solver_init(c, None) : c \in Classes \ {"SolverFPTAS"}}
    \cup {Solver_init("SolverFPTAS", e) : e \in EpsSet}

NotCalled == [status |-> "not_called", ret |-> 0]

Init ==
    /\ solver \in NewSolvers
    /\ inst \in Instances
    /\ perm \in ArgsortResults(inst.n, inst.weights, inst.values)
    /\ call = NotCalled
    /\ SaIdle
    /\ WsatIdle
    /\ AuxIdle

\* solver.solve(n, cap, weights, values) returns or raises.
Finish(r) ==
    /\ solver' = r.self
    /\ call' = [status |-> r.status, ret |-> r.ret]
    /\ UNCHANGED <<inst, perm>>
    /\ UNCHANGED <<saVars, wsatVars, auxVars>>

SolveBrute ==
    /\ call.status = "not_called" /\ solver.cls = "SolverBrute"
    /\ Finish(SolverPrune_solve(solver, inst.n, inst.cap, inst.weights, inst.values))

SolveBB ==
    /\ call.status = "not_called" /\ solver.cls = "SolverBB"
    /\ Finish(SolverPrune_solve(solver, inst.n, inst.cap, inst.weights, inst.values))

SolveDynamic ==
    /\ call.status = "not_called" /\ solver.cls = "SolverDynamic"
    /\ Finish(SolverDynamic_solve(solver, inst.n, inst.cap, inst.weights, inst.values))

SolveGreedy ==
    /\ call.status = "not_called" /\ solver.cls = "SolverGreedy"
    /\ Finish(SolverGreedy_solve(solver, inst.n, inst.cap, inst.weights, inst.values, perm))

SolveRedux ==
    /\ call.status = "not_called" /\ solver.cls = "SolverRedux"
    /\ Finish(SolverRedux_solve(solver, inst.n, inst.cap, inst.weights, inst.values, perm))

SolveFPTAS ==
    /\ call.status = "not_called" /\ solver.cls = "SolverFPTAS"
    /\ Finish(SolverFPTAS_solve(solver, inst.n, inst.cap, inst.weights, inst.values))

Next ==
    \/ SolveBrute
    \/ SolveBB
    \/ SolveDynamic
    \/ SolveGreedy
    \/ SolveRedux
    \/ SolveFPTAS

Spec == Init /\ [][Next]_vars

\* ------------------------------------------------------------------------
\* __knapsack_rec step by step: the calls in progress are the frames of
\* stack, the last one the call that is running; config is the one list all
\* the calls share, ret the value the last finished call returned.
\* ------------------------------------------------------------------------
RecSizes == {1, 2, 3}

RecWeights == {0, 1, 2}

RecValues == {0, 1, 2}

RecInstances ==
    UNION {[n : {n}, cap : 0..MaxCap, weights : [1..n -> RecWeights],
            values : [1..n -> RecValues]] : n \in RecSizes}

RecSolvers == {Solver_init(c, None) : c \in {"SolverBrute", "SolverBB", "SolverDynamic"}}

NoStack == [frames |-> <<>>, config |-> <<>>, ret |-> 0]

Frame(n, cap, value, value_remaining) ==
    [n |-> n, cap |-> cap, value |-> value, value_remaining |-> value_remaining,
     pc |-> "enter", without_curr |-> 0]

Top == stack.frames[Len(stack.frames)]

\* The running call returns v to its caller.
Return(v, config) ==
    stack' = [frames |-> SubSeq(stack.frames, 1, Len(stack.frames) - 1),
              config |-> config, ret |-> v]

\* The running call moves to position at and calls itself.
Recurse(at, without_curr, child, config) ==
    stack' = [frames |-> Append([stack.frames EXCEPT ![Len(stack.frames)] =
                                    [@ EXCEPT !.pc = at, !.without_curr = without_curr]],
                                child),
              config |-> config, ret |-> stack.ret]

Running == call.status = "running" /\ stack.frames # <<>>

InitRec ==
    /\ solver \in RecSolvers
    /\ inst \in RecInstances
    /\ perm = Idle
    /\ call = NotCalled
    /\ stack = NoStack
    /\ SaIdle
    /\ WsatIdle
    /\ LifeIdle
    /\ ObjIdle

\* solve: set_instance_params, then the first call of __knapsack_rec.
RecSolve ==
    /\ call.status = "not_called"
    /\ solver.cls \in {"SolverBrute", "SolverBB"}
    /\ LET s == set_instance_params(solver, inst.n, inst.cap, inst.weights, inst.values)
       IN  /\ solver' = s
           /\ stack' = [frames |-> <<Frame(s._n, s._cap, 0, s._values_sum)>>,
                        config |-> Zeros(inst.n), ret |-> 0]
    /\ call' = [status |-> "running", ret |-> 0]
    /\ UNCHANGED <<inst, perm, saVars, wsatVars, lifeVars, objVars>>

\* if self._prune(...): return 0
RecPrune ==
    /\ Running /\ Top.pc = "enter"
    /\ _prune(solver, Top.cap, Top.value, Top.value_remaining)
    /\ Return(0, stack.config)
    /\ UNCHANGED <<solver, inst, perm, call, saVars, wsatVars, lifeVars, objVars>>

\* if n == 0: the best solution is updated; return 0
RecLeaf ==
    /\ Running /\ Top.pc = "enter"
    /\ ~_prune(solver, Top.cap, Top.value, Top.value_remaining)
    /\ Top.n = 0
    /\ solver' = UpdateBest(solver, Top.cap, Top.value, stack.config)
    /\ Return(0, stack.config)
    /\ UNCHANGED <<inst, perm, call, saVars, wsatVars, lifeVars, objVars>>

\* config[n - 1] = 0 and the call without the current item
RecWithout ==
    /\ Running /\ Top.pc = "enter"
    /\ ~_prune(solver, Top.cap, Top.value, Top.value_remaining)
    /\ Top.n > 0
    /\ Recurse("without", 0,
               Frame(Top.n - 1, Top.cap, Top.value,
                     Top.value_remaining - solver._values[Top.n]),
               [stack.config EXCEPT ![Top.n] = 0])
    /\ UNCHANGED <<solver, inst, perm, call, saVars, wsatVars, lifeVars, objVars>>

\* if self._weights[n - 1] > cap: return without_curr
RecTooHeavy ==
    /\ Running /\ Top.pc = "without"
    /\ solver._weights[Top.n] > Top.cap
    /\ Return(stack.ret, stack.config)
    /\ UNCHANGED <<solver, inst, perm, call, saVars, wsatVars, lifeVars, objVars>>

\* config[n - 1] = 1 and the call with the current item
RecWith ==
    /\ Running /\ Top.pc = "without"
    /\ ~(solver._weights[Top.n] > Top.cap)
    /\ Recurse("with", stack.ret,
               Frame(Top.n - 1, Top.cap - solver._weights[Top.n],
                     Top.value + solver._values[Top.n],
                     Top.value_remaining - solver._values[Top.n]),
               [stack.config EXCEPT ![Top.n] = 1])
    /\ UNCHANGED <<solver, inst, perm, call, saVars, wsatVars, lifeVars, objVars>>

\* with_curr += self._values[n - 1]; return max(with_curr, without_curr)
RecMax ==
    /\ Running /\ Top.pc = "with"
    /\ Return(Max(stack.ret + solver._values[Top.n], Top.without_curr), stack.config)
    /\ UNCHANGED <<solver, inst, perm, call, saVars, wsatVars, lifeVars, objVars>>

\* The first call has returned: solve returns its value.
RecDone ==
    /\ call.status = "running" /\ stack.frames = <<>>
    /\ call' = [status |-> "returned", ret |-> stack.ret]
    /\ UNCHANGED <<solver, inst, perm, stack, saVars, wsatVars, lifeVars, objVars>>

NextRec ==
    \/ RecSolve
    \/ RecPrune
    \/ RecLeaf
    \/ RecWithout
    \/ RecTooHeavy
    \/ RecWith
    \/ RecMax
    \/ RecDone
    \/ SolveDynamic

SpecRec == InitRec /\ [][NextRec]_vars

\* ------------------------------------------------------------------------
\* A basic solver object used twice: solve is called on one instance and
\* then on another.
\* ------------------------------------------------------------------------
\* solver.solve(n, cap, weights, values), by the class of the object; p is
\* what np.argsort returns for the instance.
Solver_solve(self, i, p) ==
    IF self.cls \in {"SolverBrute", "SolverBB"}
    THEN SolverPrune_solve(self, i.n, i.cap, i.weights, i.values)
    ELSE IF self.cls = "SolverDynamic"
    THEN SolverDynamic_solve(self, i.n, i.cap, i.weights, i.values)
    ELSE IF self.cls = "SolverGreedy"
    THEN SolverGreedy_solve(self, i.n, i.cap, i.weights, i.values, p)
    ELSE IF self.cls = "SolverRedux"
    THEN SolverRedux_solve(self, i.n, i.cap, i.weights, i.values, p)
    ELSE SolverFPTAS_solve(self, i.n, i.cap, i.weights, i.values)

\* The instances of the first call: every item of weight 1 and value 1 and
\* all of them fitting (the object is left with a full configuration); two
\* items where the single heavier one beats greedy; one item of weight 0 and
\* value 0 (greedy, redux and the approximation raise).
FirstInstances ==
    {[n |-> n, cap |-> n, weights |-> [k \in 1..n |-> 1],
      values |-> [k \in 1..n |-> 1]] : n \in 1..MaxN}
    \cup {[n |-> 2, cap |-> 2, weights |-> <<1, 2>>, values |-> <<1, 2>>],
          [n |-> 1, cap |-> 0, weights |-> <<0>>, values |-> <<0>>]}

\* The instances of the second call: those of one or two items.
SecondSizes == {1, 2}

SecondInstances == {i \in Instances : i.n \in SecondSizes}

ResolveSolvers ==
    {Solver_init(c, None) : c \in Classes \ {"SolverFPTAS"}}
    \cup {Solver_init("SolverFPTAS", [num |-> 1, den |-> 2])}

NoFirst == [called |-> FALSE, status |-> "not_called", ret |-> 0]

InitResolve ==
    /\ solver \in ResolveSolvers
    /\ inst \in FirstInstances
    /\ perm \in ArgsortResults(inst.n, inst.weights, inst.values)
    /\ call = NotCalled
    /\ first = NoFirst
    /\ qlog = Idle
    /\ SaIdle
    /\ WsatIdle
    /\ RecIdle
    /\ ObjIdle

\* The second call, on the object the first call left.
Resolve ==
    /\ call.status # "not_called"
    /\ ~first.called
    /\ \E b \in SecondInstances :
         \E p \in ArgsortResults(b.n, b.weights, b.values) :
            LET r == Solver_solve(solver, b, p)
            IN  /\ inst' = b
                /\ perm' = p
                /\ solver' = r.self
                /\ call' = [status |-> r.status, ret |-> r.ret]
    /\ first' = [called |-> TRUE, status |-> call.status, ret |-> call.ret]
    /\ UNCHANGED <<qlog, saVars, wsatVars, recVars, objVars>>

NextResolve ==
    \/ SolveBrute
    \/ SolveBB
    \/ SolveDynamic
    \/ SolveGreedy
    \/ SolveRedux
    \/ SolveFPTAS
    \/ Resolve

SpecResolve == InitResolve /\ [][NextResolve]_vars

\* ------------------------------------------------------------------------
\* The annealing solvers as a state machine: a solver is constructed with
\* the caller's t_initial and t_final, solve is called, and the engine takes
\* one step at a time.
\* ------------------------------------------------------------------------
\* What callers pass for t_initial and t_final: nothing, or a temperature.
TempArgs == {NoneT, RatInt(1), RatInt(2)}

CoolingCoefs == {Rat(1, 2)}

InnerCycles == {1, 2}

Windows == {3}

AcceptanceRatios == {Rat(9, 10)}

\* estimate = 1e7 * random.uniform(1, 2).  Only the order of temperatures
\* decides what the engine does, so the model counts them in a unit in
\* which the draw is 4.
EstimateStarts == {RatInt(4)}

KnapsackArgs ==
    UNION {[n : {n}, cap : 0..SaMaxItem,
            weights : [1..n -> 1..SaMaxItem],
            values : [1..n -> 1..SaMaxItem]] : n \in 1..SaMaxN}

\* Weighted-SAT instances of one clause that repeats one literal, every
\* variable of weight 1.
WSATArgs ==
    UNION {[n_vars : {n}, n_clauses : {1},
            weights : [1..n -> {1}],
            clauses : {<< <<l, l, l>> >> : l \in {x \in (-n)..n : x # 0}}]
           : n \in 1..SaMaxN}

CtorArgs ==
    [cls : {"KnapsackSolverSA", "WSATSolverSA"},
     cooling_coef : CoolingCoefs, t_initial : TempArgs, t_final : TempArgs,
     inner_cycle : InnerCycles, start_acceptance_ratio : AcceptanceRatios,
     sliding_window_size : Windows,
     penalize_strategy : Strategies, weights_importance : {Rat(1, 2)}]

Construct(a) ==
    IF a.cls = "KnapsackSolverSA"
    THEN KnapsackSolverSA_init(a.cooling_coef, a.t_initial, a.t_final,
                               a.inner_cycle, a.start_acceptance_ratio,
                               a.sliding_window_size)
    ELSE WSATSolverSA_init(a.cooling_coef, a.t_initial, a.t_final,
                           a.inner_cycle, a.start_acceptance_ratio,
                           a.sliding_window_size,
                           a.penalize_strategy, a.weights_importance)

NoFrame == [estimate |-> RatInt(0), n_accepted |-> 0, i |-> 0, halvings |-> 0,
            k |-> 0, batches |-> 0]

NoStep == [neigh |-> <<>>, obj_new |-> RatInt(0), obj_curr |-> RatInt(0),
           change |-> FALSE]

InitSA ==
    /\ ctor \in {a \in CtorArgs :
                    a.cls = "KnapsackSolverSA" => a.penalize_strategy = "simple"}
    /\ sa = Construct(ctor)
    /\ prob \in (IF ctor.cls = "KnapsackSolverSA" THEN KnapsackArgs ELSE WSATArgs)
    /\ pc = "constructed"
    /\ frame = NoFrame
    /\ step = NoStep
    /\ sret = RatInt(0)
    /\ BasicIdle
    /\ WsatIdle
    /\ AuxIdle

StepLocals(r) == [neigh |-> r.neigh, obj_new |-> r.obj_new,
                  obj_curr |-> r.obj_curr, change |-> r.change]

\* solve up to the loop it enters: the estimation loop when no initial
\* temperature is set, the cooling loop otherwise.
SaSolve ==
    /\ pc = "constructed"
    /\ LET s == [_init_problem([sa EXCEPT !._n_steps_still = 0], prob)
                    EXCEPT !._config = config_init(prob), !._history = <<>>]
       IN  IF IsNone(s._t_initial)
           THEN \E e \in EstimateStarts :
                  /\ sa' = [s EXCEPT !._t_curr = e]
                  /\ frame' = [NoFrame EXCEPT !.estimate = e]
                  /\ pc' = "estimating"
           ELSE /\ sa' = [s EXCEPT !._t_curr = s._t_initial]
                /\ frame' = NoFrame
                /\ pc' = "cooling"
    /\ UNCHANGED <<ctor, prob, step, sret>>
    /\ UNCHANGED <<basicVars, wsatVars, auxVars>>

\* One trial step of _estimate_initial_temp.
EstimateSample ==
    /\ pc = "estimating"
    /\ frame.i < sa._sliding_window_size
    /\ \E idx \in 1..Len(sa._config), r_le_p \in BOOLEAN :
         LET r == _step(sa, idx, r_le_p)
         IN  IF r.raises
             THEN pc' = "raised" /\ UNCHANGED <<sa, frame, step>>
             ELSE /\ sa' = [r.self EXCEPT !._config = r.config_next]
                  /\ frame' = [frame EXCEPT
                                 !.i = @ + 1,
                                 !.n_accepted = IF r.self._n_steps_still = 0
                                                THEN @ + 1 ELSE @]
                  /\ step' = StepLocals(r)
                  /\ pc' = pc
    /\ UNCHANGED <<ctor, prob, sret>>
    /\ UNCHANGED <<basicVars, wsatVars, auxVars>>

\* estimate /= 2 on a float: after MaxHalvings halvings the model's float
\* underflows to 0.
Halve(estimate, halvings) ==
    IF halvings >= MaxHalvings THEN RatInt(0) ELSE RatMul(estimate, Rat(1, 2))

\* The end of a batch of trial steps: the estimate is returned when the
\* acceptance ratio is low enough, and halved otherwise.  solve then puts
\* the initial configuration back.
EstimateCheck ==
    /\ pc = "estimating"
    /\ frame.i = sa._sliding_window_size
    /\ LET n_samples == sa._sliding_window_size
           low == RatLess(Rat(frame.n_accepted, n_samples), sa._start_acceptance_ratio)
           half == Halve(frame.estimate, frame.halvings)
       IN  IF low
           THEN /\ sa' = [sa EXCEPT !._t_curr = frame.estimate,
                                    !._config = config_init(prob)]
                /\ frame' = NoFrame
                /\ pc' = "cooling"
           ELSE IF half.num > 0
           THEN /\ sa' = [sa EXCEPT !._t_curr = half]
                /\ frame' = [frame EXCEPT !.estimate = half, !.n_accepted = 0,
                                          !.i = 0, !.halvings = @ + 1]
                /\ pc' = pc
           ELSE /\ sa' = [sa EXCEPT !._t_curr = RatInt(0),
                                    !._config = config_init(prob)]
                /\ frame' = NoFrame
                /\ pc' = "cooling"
    /\ UNCHANGED <<ctor, prob, step, sret>>
    /\ UNCHANGED <<basicVars, wsatVars, auxVars>>

\* One step of the inner cycle of the cooling loop.  The first step of a
\* batch is taken only when _stop() is false.
CoolStep ==
    /\ pc = "cooling"
    /\ frame.k < sa._inner_cycle
    /\ frame.k = 0 => (~_stop(sa) /\ frame.batches < MaxBatches)
    /\ \E idx \in 1..Len(sa._config), r_le_p \in BOOLEAN :
         LET r == _step(sa, idx, r_le_p)
             step_result == [objective |-> r.objective_next,
                             accepted |-> (r.self._n_steps_still = 0)]
         IN  IF r.raises
             THEN pc' = "raised" /\ UNCHANGED <<sa, frame, step>>
             ELSE /\ sa' = [r.self EXCEPT !._config = r.config_next,
                                          !._history = Append(@, step_result)]
                  /\ frame' = [frame EXCEPT !.k = @ + 1]
                  /\ step' = StepLocals(r)
                  /\ pc' = pc
    /\ UNCHANGED <<ctor, prob, sret>>
    /\ UNCHANGED <<basicVars, wsatVars, auxVars>>

\* Mutant: the temperature is left as it is at the end of a batch.
CoolDown_NoCooling ==
    /\ pc = "cooling"
    /\ frame.k = sa._inner_cycle
    /\ frame' = [frame EXCEPT !.k = 0, !.batches = @ + 1]
    /\ UNCHANGED <<ctor, sa, prob, pc, step, sret>>
    /\ UNCHANGED <<basicVars, wsatVars, auxVars>>

\* The end of a batch: self._t_curr *= self._cooling_coef
CoolDown ==
    /\ pc = "cooling"
    /\ frame.k = sa._inner_cycle
    /\ sa' = [sa EXCEPT !._t_curr = RatMul(@, sa._cooling_coef)]
    /\ frame' = [frame EXCEPT !.k = 0, !.batches = @ + 1]
    /\ UNCHANGED <<ctor, prob, pc, step, sret>>
    /\ UNCHANGED <<basicVars, wsatVars, auxVars>>

\* _stop() is true at the head of the loop: solve returns the objective.
SaReturn ==
    /\ pc = "cooling"
    /\ frame.k = 0
    /\ _stop(sa)
    /\ sret' = _objective(sa, sa._config)
    /\ pc' = "done"
    /\ UNCHANGED <<ctor, sa, prob, frame, step>>
    /\ UNCHANGED <<basicVars, wsatVars, auxVars>>

NextSA ==
    \/ SaSolve
    \/ EstimateSample
    \/ EstimateCheck
    \/ CoolStep
    \/ CoolDown
    \/ SaReturn

SpecSA == InitSA /\ [][NextSA]_vars

\* ------------------------------------------------------------------------
\* Annealing runs with both temperatures given: solve goes straight to the
\* cooling loop, and the program keeps running until solve returns.
\* ------------------------------------------------------------------------
CoolTemps == {RatInt(1), RatInt(2), RatInt(4)}

CoolFinals == {RatInt(1), RatInt(2)}

\* The constructor calls that leave an engine with a starting temperature
\* of CoolTemps and a final temperature of CoolFinals.
CoolCtors ==
    {b \in {[a EXCEPT !.t_initial = t0, !.t_final = tf] :
                a \in {c \in CtorArgs : c.penalize_strategy = "simple"},
                t0 \in CoolTemps, tf \in CoolTemps} :
        /\ Construct(b)._t_initial \in CoolTemps
        /\ Construct(b)._t_final \in CoolFinals}

InitCool ==
    /\ ctor \in CoolCtors
    /\ sa = Construct(ctor)
    /\ prob \in (IF ctor.cls = "KnapsackSolverSA" THEN KnapsackArgs ELSE WSATArgs)
    /\ pc = "constructed"
    /\ frame = NoFrame
    /\ step = NoStep
    /\ sret = RatInt(0)
    /\ BasicIdle
    /\ WsatIdle
    /\ AuxIdle

NextCool ==
    \/ SaSolve
    \/ CoolStep
    \/ CoolDown
    \/ SaReturn

\* solve is one sequential call: while a statement is left to run, one runs.
\* Every statement moves the position in solve (pc, frame).
SpecCool == InitCool /\ [][NextCool]_vars /\ WF_<<pc, frame>>(NextCool)

\* ------------------------------------------------------------------------
\* The construction of an annealing solver, followed by the start of solve.
\* ------------------------------------------------------------------------
\* The names a caller may pass as penalize_strategy: the three the class
\* knows, a misspelt one and the empty one.
StrategyNames == Strategies \cup {"Simple", ""}

NewArgs ==
    {[a EXCEPT !.penalize_strategy = name] : a \in CtorArgs, name \in StrategyNames}

InitNew ==
    /\ ctor \in {a \in NewArgs :
                    a.cls = "KnapsackSolverSA" => a.penalize_strategy = "simple"}
    /\ sa = Idle
    /\ prob \in (IF ctor.cls = "KnapsackSolverSA" THEN KnapsackArgs ELSE WSATArgs)
    /\ pc = "not_constructed"
    /\ frame = NoFrame
    /\ step = NoStep
    /\ sret = RatInt(0)
    /\ BasicIdle
    /\ WsatIdle
    /\ AuxIdle

\* The constructor call: it leaves an object, or raises at the assert and
\* leaves none.
New ==
    /\ pc = "not_constructed"
    /\ LET s == Construct(ctor)
       IN  IF s.cls = "AssertionError"
           THEN pc' = "ctor_raised" /\ sa' = sa
           ELSE pc' = "constructed" /\ sa' = s
    /\ UNCHANGED <<ctor, prob, frame, step, sret, basicVars, wsatVars, auxVars>>

NextNew ==
    \/ New
    \/ SaSolve

SpecNew == InitNew /\ [][NextNew]_vars

\* ------------------------------------------------------------------------
\* The queries on a solver whose solve has returned.
\* ------------------------------------------------------------------------
BasicQueries == {"get_config", "is_solvable"}

SaQueries == {"get_config", "get_objective", "get_temperature", "history"}

\* Mutant: is_solvable uses up the configuration it looks at.
Solver_query_Consuming(self, name) ==
    IF name = "get_config" THEN [self |-> self, ret |-> get_config(self)]
    ELSE [self |-> [self EXCEPT !._config_best = Zeros(Len(@))],
          ret |-> is_solvable(self)]

\* A query of a basic solver: the object it leaves and what it returns.
Solver_query(self, name) ==
    IF name = "get_config" THEN [self |-> self, ret |-> get_config(self)]
    ELSE [self |-> self, ret |-> is_solvable(self)]

\* A query of an annealing solver.
SolverSA_query(self, name) ==
    IF name = "get_config" THEN [self |-> self, ret |-> sa_get_config(self)]
    ELSE IF name = "get_objective"
    THEN [self |-> self, ret |-> _objective(self, self._config)]
    ELSE IF name = "get_temperature" THEN [self |-> self, ret |-> self._t_curr]
    ELSE [self |-> self, ret |-> self._history]

\* qlog: the last query made, the configurations get_config has returned,
\* and the object as it was before the last query.
NoQuery == [name |-> "none", seen |-> {}, before |-> Idle]

Logged(name, r, self) ==
    [name |-> name,
     seen |-> IF name = "get_config" THEN qlog.seen \cup {r.ret} ELSE qlog.seen,
     before |-> self]

\* There is no basic solver to call.
NoCall == [status |-> Idle, ret |-> 0]

QueryCtors ==
    {a \in CtorArgs : /\ a.inner_cycle = 1
                      /\ a.t_final \in {NoneT, RatInt(1)}
                      /\ a.t_initial \in {NoneT, RatInt(2)}
                      /\ a.penalize_strategy = "simple"}

InitQuery ==
    /\ qlog = NoQuery
    /\ first = Idle
    /\ WsatIdle
    /\ RecIdle
    /\ ObjIdle
    /\ \/ /\ solver \in ResolveSolvers
          /\ inst \in FirstInstances
          /\ perm \in ArgsortResults(inst.n, inst.weights, inst.values)
          /\ call = NotCalled
          /\ SaIdle
       \/ /\ ctor \in QueryCtors
          /\ sa = Construct(ctor)
          /\ prob \in (IF ctor.cls = "KnapsackSolverSA" THEN KnapsackArgs ELSE WSATArgs)
          /\ pc = "constructed"
          /\ frame = NoFrame
          /\ step = NoStep
          /\ sret = RatInt(0)
          /\ solver = Idle /\ inst = Idle /\ perm = Idle
          /\ call = NoCall

BasicQuery ==
    /\ call.status = "returned"
    /\ \E name \in BasicQueries :
         LET r == Solver_query(solver, name)
         IN  /\ solver' = r.self
             /\ qlog' = Logged(name, r, solver)
    /\ UNCHANGED <<inst, perm, call, first, saVars, wsatVars, recVars, objVars>>

SaQuery ==
    /\ pc = "done"
    /\ \E name \in SaQueries :
         LET r == SolverSA_query(sa, name)
         IN  /\ sa' = r.self
             /\ qlog' = Logged(name, r, sa)
    /\ UNCHANGED <<ctor, prob, pc, frame, step, sret>>
    /\ UNCHANGED <<first, basicVars, wsatVars, recVars, objVars>>

NextQuery ==
    \/ SolveBrute
    \/ SolveBB
    \/ SolveDynamic
    \/ SolveGreedy
    \/ SolveRedux
    \/ SolveFPTAS
    \/ BasicQuery
    \/ SaSolve
    \/ EstimateSample
    \/ EstimateCheck
    \/ CoolStep
    \/ CoolDown
    \/ SaReturn
    \/ SaQuery

SpecQuery == InitQuery /\ [][NextQuery]_vars

\* ------------------------------------------------------------------------
\* _eval_clause as a state machine: a clause and an assignment are given,
\* and the function is applied.
\* ------------------------------------------------------------------------
Literals(n) == {x \in (-n)..n : x # 0}

ClauseInputs ==
    UNION {[clause : [1..len -> Literals(n)], config : [1..n -> {0, 1}]]
           : n \in 1..MaxVars, len \in 1..MaxClauseLen}

NotEvaluated == [status |-> "not_called", ret |-> 0]

InitWSAT ==
    /\ cin \in ClauseInputs
    /\ cout = NotEvaluated
    /\ BasicIdle
    /\ SaIdle
    /\ AuxIdle

EvalClause ==
    /\ cout = NotEvaluated
    /\ cout' = [status |-> "returned", ret |-> _eval_clause(cin.clause, cin.config)]
    /\ UNCHANGED <<cin, basicVars, saVars, auxVars>>

NextWSAT == EvalClause

SpecWSAT == InitWSAT /\ [][NextWSAT]_vars

\* ------------------------------------------------------------------------
\* WSATSolverSA._objective as a state machine: a solver is constructed with a
\* strategy and a weights_importance, its problem is set, and _objective is
\* applied to a configuration.
\* ------------------------------------------------------------------------
ObjMaxVars == 2

ObjMaxWeight == 1

ObjClauseCounts == {1, 2}

ObjImportances == {RatInt(0), Rat(1, 2), RatInt(1)}

\* Clauses of three literals that repeat one literal.
ObjClauseLists(n) ==
    UNION {[1..k -> {<<l, l, l>> : l \in Literals(n)}] : k \in ObjClauseCounts}

ObjArgs ==
    UNION {{[n_vars |-> n, n_clauses |-> Len(cl), weights |-> w, clauses |-> cl]
            : w \in [1..n -> 0..ObjMaxWeight], cl \in ObjClauseLists(n)}
           : n \in 1..ObjMaxVars}

ObjSolvers ==
    {WSAT_init_problem(
        WSATSolverSA_init(Rat(1, 2), NoneT, NoneT, 1, Rat(9, 10), 3, strategy, wi),
        args)
     : strategy \in Strategies, wi \in ObjImportances, args \in ObjArgs}

InitObjective ==
    /\ oself \in ObjSolvers
    /\ ocfg \in [config : [1..oself._n_vars -> {0, 1}], is_numpy : BOOLEAN]
    /\ oret = NotEvaluated
    /\ BasicIdle
    /\ SaIdle
    /\ WsatIdle
    /\ LifeIdle
    /\ RecIdle

EvalObjective ==
    /\ oret = NotEvaluated
    /\ oret' = [status |-> "returned",
                ret |-> WSAT_objective(oself, ocfg.config, ocfg.is_numpy)]
    /\ UNCHANGED <<oself, ocfg, basicVars, saVars, wsatVars, lifeVars, recVars>>

NextObjective == EvalObjective

SpecObjective == InitObjective /\ [][NextObjective]_vars

\* ========================================================================
\* Properties
\* ========================================================================
AllConfigs(n) == [1..n -> {0, 1}]

TotalWeight(i, config) == SumFlagged(i.weights, config)

TotalValue(i, config) == SumFlagged(i.values, config)

\* The maximum total value over the item subsets that fit the capacity.
Optimum(i) ==
    SetMax({TotalValue(i, c) : c \in {d \in AllConfigs(i.n) : TotalWeight(i, d) <= i.cap}})

ExactSolvers == {"SolverBrute", "SolverBB", "SolverDynamic"}

Called == call.status # "not_called"

\* C1: on every instance SolverBrute.solve, SolverBB.solve and
\* SolverDynamic.solve return, and each returns the maximum total value over
\* the item subsets whose total weight does not exceed the capacity; so the
\* three return the same number.
C1_ExactSolversReturnOptimum ==
    (Called /\ solver.cls \in ExactSolvers)
        => (call.status = "returned" /\ call.ret = Optimum(inst))

\* Branch and bound has returned a positive value on an instance with an
\* item that is too heavy and worth more than the optimum.
C1_Witness ==
    /\ call.status = "returned" /\ solver.cls = "SolverBB"
    /\ call.ret > 0
    /\ \E k \in 1..inst.n : inst.weights[k] > inst.cap
    /\ \E k \in 1..inst.n : inst.values[k] > call.ret

\* C2: after solve of any basic solver returns, the configuration of
\* get_config() has a total weight that does not exceed the capacity.
C2_ConfigFitsCapacity ==
    call.status = "returned" => TotalWeight(inst, get_config(solver)) <= inst.cap

\* The dynamic solver has returned a configuration that fills the capacity
\* exactly and leaves an item out.
C2_Witness ==
    /\ call.status = "returned" /\ solver.cls = "SolverDynamic"
    /\ inst.cap > 0
    /\ TotalWeight(inst, get_config(solver)) = inst.cap
    /\ \E k \in 1..inst.n : get_config(solver)[k] = 0 /\ inst.values[k] > 0

DynamicValue(i) ==
    SolverDynamic_solve(Solver_init("SolverDynamic", None),
                        i.n, i.cap, i.weights, i.values).ret

\* The approximation bound for eps = num / den, in integers:
\* ret >= (1 - eps) * optimum  iff  ret * den >= (den - num) * optimum.
FptasBound(ret, eps, optimum) == ret * eps.den >= (eps.den - eps.num) * optimum

\* C3 (as claimed): on every instance SolverFPTAS(eps).solve returns a value,
\* and the value is at least (1 - eps) times the value SolverDynamic.solve
\* returns on the same instance.
C3_FptasBound ==
    (Called /\ solver.cls = "SolverFPTAS")
        => /\ call.status = "returned"
           /\ FptasBound(call.ret, solver._eps, DynamicValue(inst))

\* The approximation was called on an instance whose fitting items all have
\* value 0: the scaling factor is 0 and the division by it raised.
C3_Witness ==
    /\ call.status = "raised" /\ solver.cls = "SolverFPTAS"
    /\ \E k \in 1..inst.n : inst.weights[k] <= inst.cap
    /\ \A k \in 1..inst.n : inst.weights[k] <= inst.cap => inst.values[k] = 0

\* C3 where solve returns: the returned value keeps the bound, also on an
\* instance with an item too heavy for the knapsack and worth more than the
\* optimum.
C3_BoundWhenReturned ==
    (call.status = "returned" /\ solver.cls = "SolverFPTAS")
        => FptasBound(call.ret, solver._eps, DynamicValue(inst))

\* C4 (as claimed): after SolverGreedy.solve or SolverRedux.solve returns v,
\* the items get_config() flags have total value v, and is_solvable() is
\* true whenever an item was included.
C4_GreedyConfigMatchesValue ==
    (call.status = "returned" /\ solver.cls \in {"SolverGreedy", "SolverRedux"})
        => /\ TotalValue(inst, get_config(solver)) = call.ret
           /\ (call.ret > 0 => is_solvable(solver))

PositiveWeights(i) == \A k \in 1..i.n : i.weights[k] > 0

GreedyValue(i, p) ==
    SolverGreedy_solve(Solver_init("SolverGreedy", None),
                       i.n, i.cap, i.weights, i.values, p).ret

\* The value of the most valuable single item that fits (0 when none fits).
BestSingleFit(i) ==
    SetMax({0} \cup {i.values[k] : k \in {j \in 1..i.n : i.weights[j] <= i.cap}})

\* C5: with positive weights SolverRedux.solve returns a value that is at
\* least the value SolverGreedy.solve returns on the same instance, and that
\* equals the larger of the greedy value and the value of the most valuable
\* single item that fits.
C5_ReduxDominatesGreedy ==
    (Called /\ solver.cls = "SolverRedux" /\ PositiveWeights(inst))
        => /\ call.status = "returned"
           /\ call.ret >= GreedyValue(inst, perm)
           /\ call.ret = Max(GreedyValue(inst, perm), BestSingleFit(inst))

\* Redux has returned more than greedy gets: the single item won.
C5_Witness ==
    /\ call.status = "returned" /\ solver.cls = "SolverRedux"
    /\ PositiveWeights(inst)
    /\ call.ret > GreedyValue(inst, perm)
    /\ GreedyValue(inst, perm) > 0

\* A _step call has just been made (a trial step or a cooling step).
StepTaken ==
    \/ (pc = "estimating" /\ pc' = "estimating" /\ frame'.i = frame.i + 1)
    \/ (pc = "cooling" /\ pc' = "cooling" /\ frame'.k = frame.k + 1)

NotWorse(self, neigh) ==
    ~RatLess(_objective(self, neigh), _objective(self, self._config))

StopClaimed(self) ==
    \/ (~IsNone(self._t_final) /\ RatLeq(self._t_curr, self._t_final))
    \/ (IsNone(self._t_final) /\ 2 * self._n_steps_still >= self._sliding_window_size)
    \/ RatLeq(self._t_curr, RatInt(0))

Given(t) == ~IsNone(t)

\* Cooling is about to start: no batch has run yet.
CoolingStarts == pc = "cooling" /\ frame.batches = 0 /\ frame.k = 0

\* C8 (as claimed): with t_initial = a and t_final = b there is no
\* estimation, Cooling starts at a and the run stops at or below b; with only
\* t_initial Cooling starts at it and the stall criterion stops the run; with
\* only t_final trial steps of the estimation come before Cooling.
C8_ConstructorTemperatures ==
    /\ (Given(ctor.t_initial) /\ Given(ctor.t_final))
          => /\ pc # "estimating"
             /\ CoolingStarts => sa._t_curr = ctor.t_initial
             /\ pc = "done" => RatLeq(sa._t_curr, ctor.t_final)
    /\ (Given(ctor.t_initial) /\ ~Given(ctor.t_final))
          => /\ pc # "estimating"
             /\ CoolingStarts => sa._t_curr = ctor.t_initial
             /\ pc = "done" => (2 * sa._n_steps_still >= sa._sliding_window_size
                                \/ sa._t_curr.num <= 0)
    /\ (~Given(ctor.t_initial) /\ Given(ctor.t_final))
          => /\ CoolingStarts => step # NoStep
             /\ pc = "done" => RatLeq(sa._t_curr, ctor.t_final)

\* C9 (as claimed): the configuration of KnapsackSolverSA.get_config() after
\* solve returns has a total weight that does not exceed the capacity.
C9_AnnealedConfigFitsCapacity ==
    (pc = "done" /\ sa.cls = "KnapsackSolverSA")
        => SumFlagged(prob.weights, sa_get_config(sa)) <= prob.cap

\* A literal matches when it is positive and its variable is 1, or negative
\* and its variable is 0.
LiteralMatches(lit, config) ==
    \/ (lit > 0 /\ config[lit] = 1)
    \/ (lit < 0 /\ config[-lit] = 0)

\* C10: _eval_clause returns 1 when at least one literal of the clause
\* matches the assignment and 0 otherwise; (1, -2, 3) under [1, 1, 0] gives 1.
C10_EvalClause ==
    cout # NotEvaluated =>
        /\ cout.ret \in {0, 1}
        /\ cout.ret = 1
              <=> \E k \in 1..Len(cin.clause) : LiteralMatches(cin.clause[k], cin.config)
        /\ (cin.clause = <<1, -2, 3>> /\ cin.config = <<1, 1, 0>>) => cout.ret = 1

\* The clause of the example has been evaluated.
C10_Witness ==
    /\ cin.clause = <<1, -2, 3>> /\ cin.config = <<1, 1, 0>>
    /\ cout # NotEvaluated /\ cout.ret = 1

\* Some clause of the problem is not satisfied by the configuration.
SomeClauseUnsatisfied(self, config) ==
    \E c \in 1..Len(self._clauses) :
        \A k \in 1..Len(self._clauses[c]) : ~LiteralMatches(self._clauses[c][k], config)

TrueWeight(self, config) == SumFlagged(self._weights, config)

StrictlyNegative(x) == ~IsNaN(x) /\ x.num < 0

\* C11 (as claimed): for each of the three strategies, every
\* weights_importance in [0,1] and non-negative weights, _objective returns a
\* strictly negative value when some clause is unsatisfied, and the weighted
\* sum of the true variables when every clause is satisfied.
C11_ObjectiveSign ==
    oret # NotEvaluated =>
        IF SomeClauseUnsatisfied(oself, ocfg.config)
        THEN StrictlyNegative(oret.ret)
        ELSE oret.ret = RatInt(TrueWeight(oself, ocfg.config))

\* C11, the part that holds: with every clause satisfied _objective returns
\* the weighted sum of the true variables, and the simple strategy is
\* strictly negative whenever a clause is unsatisfied.
C11_SatisfiedAndSimple ==
    oret # NotEvaluated =>
        /\ ~SomeClauseUnsatisfied(oself, ocfg.config)
              => oret.ret = RatInt(TrueWeight(oself, ocfg.config))
        /\ (SomeClauseUnsatisfied(oself, ocfg.config) /\ oself._penalize = "simple")
              => StrictlyNegative(oret.ret)

\* The weighted strategy was applied with an unsatisfied clause and a total
\* weight of 0: the penalty is 0.
C11_Witness ==
    /\ oret # NotEvaluated
    /\ oself._penalize = "weighted" /\ oself._max_score = 0
    /\ SomeClauseUnsatisfied(oself, ocfg.config)
    /\ oret.ret.num = 0

\* solve on a new object of the same class (and eps).
FreshSolve(self, i, p) == Solver_solve(Solver_init(self.cls, self._eps), i, p)

\* C12: a second solve on a used object ends as solve on a new object does:
\* the same outcome and returned value, the same get_config(), and when it
\* returns the same object altogether; nothing of the first call is left.
C12_ResolveAsFresh ==
    first.called =>
        LET fresh == FreshSolve(solver, inst, perm)
        IN  /\ call.status = fresh.status
            /\ call.ret = fresh.ret
            /\ get_config(solver) = get_config(fresh.self)
            /\ call.status = "returned" => solver = fresh.self

\* The first call returned a positive value, and the second call, on an
\* instance where nothing fits, returned 0 with an empty configuration.
C12_Witness ==
    /\ first.called /\ first.status = "returned" /\ first.ret > 0
    /\ call.status = "returned" /\ call.ret = 0
    /\ inst.n = 1 /\ inst.cap = 0 /\ inst.weights[1] = 1
    /\ solver.cls = "SolverBB"
    /\ get_config(solver) = <<0>>

NoItemFits(i) == \A k \in 1..i.n : i.weights[k] > i.cap

\* C13: on an instance in which no item fits, solve of each of the six
\* classes returns 0 without raising and get_config() is all zeros.
C13_NothingFits ==
    (Called /\ NoItemFits(inst)) =>
        /\ call.status = "returned"
        /\ call.ret = 0
        /\ get_config(solver) = Zeros(inst.n)

\* Greedy was called on two items of positive value, each heavier than a
\* positive capacity.
C13_Witness ==
    /\ Called /\ NoItemFits(inst)
    /\ solver.cls = "SolverGreedy"
    /\ inst.n = 2 /\ inst.cap = 1
    /\ inst.values[1] > 0 /\ inst.values[2] > 0

\* C14: the construction of WSATSolverSA with a strategy name other than
\* 'simple', 'weighted' and 'greedy' fails, so that there is no object and
\* no solve starts; with one of the three names the construction does not
\* fail.
C14_StrategyChecked ==
    /\ (ctor.cls = "WSATSolverSA" /\ ctor.penalize_strategy \notin Strategies)
          => pc \in {"not_constructed", "ctor_raised"} /\ sa = Idle
    /\ ctor.penalize_strategy \in Strategies => pc # "ctor_raised"

\* The constructor was called with the misspelt name and raised.
C14_Witness ==
    /\ ctor.cls = "WSATSolverSA" /\ ctor.penalize_strategy = "Simple"
    /\ pc = "ctor_raised"

\* The solver object the queries are made on, and its configuration.
Queried == IF pc = Idle THEN solver ELSE sa

ConfigNow == IF pc = Idle THEN get_config(solver) ELSE sa_get_config(sa)

\* C15: after solve has returned, every get_config() call returns the same
\* configuration, however many queries are made in between, and a query
\* leaves the solver object as it found it.
C15_QueriesKeepState ==
    qlog.name # "none" =>
        /\ qlog.before = Queried
        /\ qlog.seen \subseteq {ConfigNow}

\* get_config has been called, and then another query, on a solver that
\* holds a configuration with an item in it.
C15_Witness ==
    /\ qlog.name = "is_solvable"
    /\ qlog.seen = {<<1, 1>>}
    /\ solver.cls = "SolverDynamic"

\* The weights of the subsets of the first k items of instance i whose
\* values sum to exactly j.
WeightsReaching(i, k, j) ==
    {TotalWeight(i, c) : c \in {d \in AllConfigs(i.n) :
        /\ \A m \in (k + 1)..i.n : d[m] = 0
        /\ TotalValue(i, d) = j}}

SetMin(S) == CHOOSE x \in S : \A y \in S : x <= y

MinWeightReaching(i, k, j) ==
    IF WeightsReaching(i, k, j) = {} THEN Inf ELSE SetMin(WeightsReaching(i, k, j))

\* C16: in the table SolverDynamic fills, cell [k][j] is the least total
\* weight of a subset of the first k items with total value exactly j, or
\* infinity when there is none, and cell [k][0] is 0; the best weight the
\* solver records is the cell of the last row at the value it returns.
C16_TableCells ==
    (Called /\ solver.cls = "SolverDynamic") =>
        LET sum == SumSeq(inst.values)
            table == FillTable(inst.n, sum + 1, inst.weights, inst.values)
        IN  /\ \A k \in 0..inst.n : \A j \in 0..sum :
                  table[k][j] = MinWeightReaching(inst, k, j)
            /\ \A k \in 0..inst.n : table[k][0] = 0
            /\ call.ret > 0 => solver._weight_best = table[inst.n][call.ret]

\* The table of two items of different value and weight: it has cells that
\* no subset reaches, and a cell where the item alone is lighter.
C16_Witness ==
    /\ Called /\ solver.cls = "SolverDynamic"
    /\ inst.n = 2 /\ inst.values = <<2, 1>> /\ inst.weights = <<1, 2>>
    /\ MinWeightReaching(inst, 2, 3) = 3
    /\ MinWeightReaching(inst, 1, 1) = Inf
    /\ call.ret = 2

\* The best value, the best weight and the best configuration of the solver
\* belong to each other.
BestConsistent ==
    /\ TotalValue(inst, solver._config_best) = solver._value_best
    /\ TotalWeight(inst, solver._config_best) = solver._weight_best

\* C17: when solve of SolverBrute, SolverBB or SolverDynamic has returned v,
\* get_config() has total value v and total weight the recorded best weight;
\* during the recursive search the best value, weight and configuration are
\* consistent after every step, and the step-by-step run ends as the
\* recursive function does.
C17_BestConsistent ==
    /\ call.status = "running" => BestConsistent
    /\ call.status = "returned" =>
          /\ BestConsistent
          /\ TotalValue(inst, get_config(solver)) = call.ret
          /\ solver.cls # "SolverDynamic" =>
                LET r == SolverPrune_solve(Solver_init(solver.cls, None), inst.n,
                                           inst.cap, inst.weights, inst.values)
                IN  r.self = solver /\ r.ret = call.ret

\* In the middle of a search of three items a best solution of positive
\* value and weight has been recorded, with a call still running.
C17_Witness ==
    /\ call.status = "running" /\ Len(stack.frames) >= 2
    /\ inst.n = 3
    /\ solver._value_best > 0 /\ solver._weight_best > 0
    /\ solver.cls = "SolverBB"

\* The leaves in the order the search meets them: the last item is decided
\* first, and without comes before with.
RECURSIVE LeafBefore(_, _, _)
LeafBefore(c, d, k) ==
    IF k = 0 THEN FALSE
    ELSE IF c[k] # d[k] THEN c[k] < d[k]
    ELSE LeafBefore(c, d, k - 1)

OptimalLeaves(i) ==
    {c \in AllConfigs(i.n) : TotalWeight(i, c) <= i.cap /\ TotalValue(i, c) = Optimum(i)}

FirstOptimalLeaf(i) ==
    CHOOSE c \in OptimalLeaves(i) : \A d \in OptimalLeaves(i) \ {c} : LeafBefore(c, d, i.n)

\* The running call lies on the path to leaf c: the items decided so far are
\* decided as in c.
OnPathTo(c) == \A k \in (Top.n + 1)..inst.n : stack.config[k] = c[k]

OtherClass(cls) == IF cls = "SolverBB" THEN "SolverBrute" ELSE "SolverBB"

\* C18: SolverBB and SolverBrute end with the same best configuration, the
\* first optimal leaf of the search order; once a leaf of the optimal value
\* is recorded it is that leaf, and no call on the path to it is pruned.
C18_FirstOptimalLeafKept ==
    solver.cls \in {"SolverBrute", "SolverBB"} =>
        /\ call.status = "returned" =>
              /\ get_config(solver) = FirstOptimalLeaf(inst)
              /\ get_config(solver) =
                    get_config(SolverPrune_solve(Solver_init(OtherClass(solver.cls), None),
                                                 inst.n, inst.cap, inst.weights,
                                                 inst.values).self)
        /\ (call.status = "running" /\ solver._value_best = Optimum(inst))
              => solver._config_best = FirstOptimalLeaf(inst)
        /\ (Running /\ Top.pc = "enter" /\ OnPathTo(FirstOptimalLeaf(inst)))
              => ~_prune(solver, Top.cap, Top.value, Top.value_remaining)

\* Branch and bound has finished an instance with two optimal leaves and
\* holds the earlier one.
C18_Witness ==
    /\ call.status = "returned" /\ solver.cls = "SolverBB"
    /\ inst.n = 2 /\ inst.cap = 1
    /\ inst.weights = <<1, 1>> /\ inst.values = <<1, 1>>
    /\ get_config(solver) = <<1, 0>>

\* The engine has no initial temperature and estimates one.
Estimates(self) == IsNone(self._t_initial)

\* C19 (as claimed): after an estimation Cooling starts from the initial
\* configuration, with an empty history and a rejection count of 0; and a
\* run with no final temperature and a positive estimate does not stop
\* before one cooling batch.
C19_EstimationLeavesNoTrace ==
    /\ (CoolingStarts /\ Estimates(sa)) =>
          /\ sa._config = config_init(prob)
          /\ sa._history = <<>>
          /\ sa._n_steps_still = 0
    /\ (pc = "done" /\ Estimates(sa) /\ IsNone(sa._t_final) /\ sa._t_curr.num > 0)
          => frame.batches >= 1

\* What does hold: the configuration and the history are as before the
\* estimation.
C19_ConfigAndHistoryRestored ==
    (CoolingStarts /\ Estimates(sa)) =>
        /\ sa._config = config_init(prob)
        /\ sa._history = <<>>

\* A run with an estimated, positive temperature and no final temperature
\* has returned without a cooling batch.
C19_Witness ==
    /\ pc = "done" /\ Estimates(sa) /\ IsNone(sa._t_final)
    /\ sa._t_curr.num > 0
    /\ frame.batches = 0
    /\ sa._history = <<>>

LastEntry(self) == self._history[Len(self._history)]

\* C20 (as claimed): the last history entry holds the objective of the
\* configuration the engine holds after that step, and so the value solve
\* returns.
C20_HistoryRecordsHeldObjective ==
    /\ (pc \in {"cooling", "done"} /\ sa._history # <<>> /\ frame.k # 0)
          => LastEntry(sa).objective = _objective(sa, sa._config)
    /\ (pc = "done" /\ sa._history # <<>>)
          => LastEntry(sa).objective = sret

\* What does hold: the entry of an accepted step holds the objective of the
\* configuration held after it, and the entry of a rejected step that of
\* the neighbour that was turned down.
C20_HistoryRecordsNeighbour ==
    (pc = "cooling" /\ sa._history # <<>> /\ frame.k # 0) =>
        /\ LastEntry(sa).objective = step.obj_new
        /\ LastEntry(sa).accepted => LastEntry(sa).objective = _objective(sa, sa._config)
        /\ ~LastEntry(sa).accepted => _objective(sa, sa._config) = step.obj_curr

\* solve has returned after a rejected last step whose neighbour scored
\* below the configuration kept.
C20_Witness ==
    /\ pc = "done" /\ sa._history # <<>>
    /\ ~LastEntry(sa).accepted
    /\ RatLess(LastEntry(sa).objective, sret)

RECURSIVE RatPow(_, _)
RatPow(a, k) == IF k = 0 THEN RatInt(1) ELSE RatMul(a, RatPow(a, k - 1))

RECURSIVE Halved(_, _)
Halved(e, h) == IF h = 0 THEN e ELSE RatMul(Halved(e, h - 1), Rat(1, 2))

\* The temperatures Cooling can start from: the one given, or what the
\* estimation can return (an estimate halved some times, or 0).
StartTemps(self) ==
    IF Estimates(self)
    THEN {Halved(e, h) : e \in EstimateStarts, h \in 0..MaxHalvings} \cup {RatInt(0)}
    ELSE {self._t_initial}

IsPrefix(s, t) == Len(s) <= Len(t) /\ SubSeq(t, 1, Len(s)) = s

\* After frame.batches batches and frame.k steps of the next one.
CoolingSchedule ==
    pc \in {"cooling", "done"} =>
        /\ Len(sa._history) = frame.batches * sa._inner_cycle + frame.k
        /\ \E t0 \in StartTemps(sa) :
              sa._t_curr = RatMul(t0, RatPow(sa._cooling_coef, frame.batches))

\* A step of the Cooling phase: a step of a batch appends one entry and
\* keeps the temperature, the end of a batch multiplies the temperature by
\* the coefficient and appends nothing.
CoolingStepwise ==
    (pc = "cooling" /\ pc' \in {"cooling", "done"}) =>
        /\ IsPrefix(sa._history, sa'._history)
        /\ frame'.k = frame.k + 1 =>
              sa'._t_curr = sa._t_curr /\ Len(sa'._history) = Len(sa._history) + 1
        /\ frame'.batches = frame.batches + 1 =>
              /\ sa'._t_curr = RatMul(sa._t_curr, sa._cooling_coef)
              /\ sa'._history = sa._history
              /\ frame.k = sa._inner_cycle

\* C21: in the Cooling phase, after k batches the history has
\* k * inner_cycle entries and the temperature is the starting temperature
\* times cooling_coef to the power k; the steps of one batch run at one
\* temperature, and the history grows only by appending.
C21_CoolingSchedule == [](CoolingSchedule) /\ [][CoolingStepwise]_vars

\* At the boundary after the second batch of two steps each: four entries,
\* and a quarter of the starting temperature.
C21_Witness ==
    /\ pc = "cooling" /\ frame.k = 0 /\ frame.batches = 2
    /\ sa._inner_cycle = 2
    /\ Len(sa._history) = 4
    /\ ~Estimates(sa)
    /\ sa._t_curr = RatMul(sa._t_initial, Rat(1, 4))

\* The least k >= 0 with t0 * coef^k <= tf.
LeastBatches(t0, tf, coef) ==
    CHOOSE k \in 0..MaxBatches :
        /\ RatLeq(RatMul(t0, RatPow(coef, k)), tf)
        /\ \A j \in 0..(k - 1) : ~RatLeq(RatMul(t0, RatPow(coef, j)), tf)

BatchesDue(self) == LeastBatches(self._t_initial, self._t_final, self._cooling_coef)

\* solve has returned after the batches due, having taken inner_cycle steps
\* in each, and at no earlier batch boundary was the loop over.
StopsWhenDue ==
    /\ pc = "done" =>
          /\ frame.batches = BatchesDue(sa)
          /\ Len(sa._history) = BatchesDue(sa) * sa._inner_cycle
    /\ (pc = "cooling" /\ frame.k = 0) =>
          /\ frame.batches <= BatchesDue(sa)
          /\ _stop(sa) <=> frame.batches = BatchesDue(sa)
    /\ pc # "raised"

\* C22: with both temperatures given and positive and a coefficient between
\* 0 and 1, solve returns whatever the draws are, after exactly the least k
\* batches with T0 * coef^k <= Tf and k * inner_cycle steps.
C22_CoolingTerminates == <>(pc = "done") /\ [](StopsWhenDue)

\* A run from 4 down to 1 has returned after two batches of two steps, one
\* of them accepted and one rejected.
C22_Witness ==
    /\ pc = "done" /\ frame.batches = 2
    /\ sa._t_initial = RatInt(4) /\ sa._t_final = RatInt(1)
    /\ sa.cls = "WSATSolverSA"
    /\ sa._inner_cycle = 2
    /\ \E i, j \in 1..Len(sa._history) :
          sa._history[i].accepted /\ ~sa._history[j].accepted

====
